---- MODULE Spec2Model ----
(***************************************************************************)
(* A model of package gcm (src/gcm.go): the reporter that drains a         *)
(* go-metrics registry into Google Cloud Monitoring time series.           *)
(*                                                                         *)
(*   Spec       Monitor: the ticker, the range loop, Report, the backend   *)
(*   FairSpec   Spec with the scheduling fairness of the goroutine         *)
(*   SpecBuild  buildTimeSeries over a registry of every instrument kind   *)
(*   SpecOnce   several reporters running Report concurrently (sync.Once)  *)
(*   SpecNames  DotSlashes and customMetric over bounded names             *)
(*                                                                         *)
(* Strings are sequences of one-character strings.  A float64 is modelled  *)
(* by an integer number of tenths (12 stands for 1.2): the code only       *)
(* compares floats with zero and copies them.                              *)
(***************************************************************************)
EXTENDS Integers, Sequences, FiniteSets, TLC

VARIABLES
    \* ---- Monitor (gcm.go:81-108)
    maxErrors,        \* parameter maxErrors
    asyncTimerChan,   \* TRUE: the ticker channel keeps a buffered tick over Stop (Go < 1.23)
    pc,               \* "recv": blocked in `for range ticker.C`; "inflight": inside Create(...).Do()
    errors,           \* var errors int
    err,              \* var err error: "nil" or "error"
    tickerC,          \* number of ticks buffered in ticker.C
    tickerStopped,    \* ticker.Stop() was called
    fired,            \* history: number of times the ticker fired
    reports,          \* history: number of calls of Report
    outcomes,         \* history: the result of every finished Report, in order
    writes,           \* history: number of CreateTimeSeries requests issued
    wr,               \* the requests issued by the last Report (each a record with TimeSeries)
    \* ---- registry and batch
    registry,         \* metrics.Registry: name -> instrument
    seen,             \* history: the registry as the last buildTimeSeries read it
    pts,              \* the batch returned by the last buildTimeSeries
    \* ---- process-wide one-time warnings (gcm.go:52-54)
    histogramsNotImplemented,  \* sync.Once: [done, m]
    timersNotImplemented,      \* sync.Once: [done, m]
    logged,           \* history: how often each one-time warning was printed
    \* ---- concurrent reporters (SpecOnce)
    rpc,              \* reporter -> position inside Report
    todo,             \* reporter -> names r.Each still has to visit
    cur,              \* reporter -> name being visited
    rpts,             \* reporter -> batch assembled so far
    \* ---- naming (SpecNames)
    nm,               \* the registry name given to the naming functions
    ident,            \* result of customMetric(nm), None before the call
    slashed,          \* nm after `applied` applications of DotSlashes
    applied           \* number of applications of DotSlashes so far

vars == <<maxErrors, asyncTimerChan, pc, errors, err, tickerC, tickerStopped, fired,
          reports, outcomes, writes, wr, registry, seen, pts,
          histogramsNotImplemented, timersNotImplemented, logged,
          rpc, todo, cur, rpts, nm, ident, slashed, applied>>

monitorVars == <<maxErrors, asyncTimerChan, pc, errors, err, tickerC, tickerStopped,
                 fired, reports, outcomes, writes, wr>>
onceVars    == <<histogramsNotImplemented, timersNotImplemented, logged>>
reporterVars == <<rpc, todo, cur, rpts>>
nameVars    == <<nm, ident, slashed, applied>>

None == "none"

(***************************************************************************)
(* Bounds                                                                  *)
(***************************************************************************)
MaxTicks       == 5   \* the ticker fires at most this often
MaxErrorsBound == 3   \* maxErrors ranges over 0..MaxErrorsBound
MaxLen         == 3   \* longest name given to DotSlashes / customMetric
MaxReporters   == 2   \* reporters calling Report concurrently

(***************************************************************************)
(* Naming: DotSlashes, customMetric (gcm.go:130-140)                       *)
(***************************************************************************)
\* strings.Replace(s, old, new, n) for one-character old and new:
\* the first n occurrences are replaced, all of them when n < 0.
RECURSIVE Replace(_, _, _, _)
Replace(s, old, new, n) ==
    IF s = <<>> \/ n = 0 THEN s
    ELSE IF Head(s) = old
         THEN <<new>> \o Replace(Tail(s), old, new, n - 1)
         ELSE <<Head(s)>> \o Replace(Tail(s), old, new, n)

\* A slip: only the first dot is replaced (n = 1 instead of -1).
DotSlashesFirstOnly(name) == Replace(name, ".", "/", 1)

DotSlashes(name) == Replace(name, ".", "/", 0 - 1)

\* "custom.googleapis.com/"
Prefix == <<"c","u","s","t","o","m",".","g","o","o","g","l","e","a","p","i","s",
            ".","c","o","m","/">>

customMetric(name) == Prefix \o DotSlashes(name)

(***************************************************************************)
(* Instruments (the variants of the type switch, gcm.go:162-272)           *)
(***************************************************************************)
Instrument(k, c, v, rm, r1, r5, r15) ==
    [kind |-> k, count |-> c, value |-> v,
     rateMean |-> rm, rate1 |-> r1, rate5 |-> r5, rate15 |-> r15]

Counter(n)      == Instrument("Counter", n, 0, 0, 0, 0, 0)
Gauge(n)        == Instrument("Gauge", 0, n, 0, 0, 0, 0)
GaugeFloat64(f) == Instrument("GaugeFloat64", 0, f, 0, 0, 0, 0)
Meter(c, rm, r1, r5, r15) == Instrument("Meter", c, 0, rm, r1, r5, r15)
Histogram(n)    == Instrument("Histogram", n, 0, 0, 0, 0, 0)
Timer(n)        == Instrument("Timer", n, 0, 0, 0, 0, 0)
Unknown         == Instrument("Unknown", 0, 0, 0, 0, 0, 0)

Int64Values == {0, 5, 10}
FloatValues == {0, 12, 34}      \* 0.0, 1.2, 3.4

Meters == {Meter(c, rm, r1, r5, r15) :
              c \in {0, 5}, rm \in FloatValues, r1 \in FloatValues,
              r5 \in FloatValues, r15 \in FloatValues}

Instruments ==
    {Counter(n) : n \in Int64Values} \cup {Gauge(n) : n \in Int64Values}
    \cup {GaugeFloat64(f) : f \in FloatValues} \cup Meters
    \cup {Histogram(n) : n \in {0, 2}} \cup {Timer(n) : n \in {0, 3}} \cup {Unknown}

\* Registry names
JobsDone  == <<"j","o","b","s",".","d","o","n","e">>
QueueSize == <<"q","u","e","u","e",".","s","i","z","e">>
RegNames  == {JobsDone, QueueSize}

\* Name suffixes of the meter's series
SfxMean  == <<".","m","e","a","n">>
Sfx1min  == <<".","1","m","i","n">>
Sfx5min  == <<".","5","m","i","n">>
Sfx15min == <<".","1","5","m","i","n">>
SfxCount == <<".","c","o","u","n","t">>

(***************************************************************************)
(* newTimeSeries and buildTimeSeries (gcm.go:142-275)                      *)
(***************************************************************************)
\* One TimeSeries with its single Point: Metric.Type and the TypedValue.
\* Labels, Resource and EndTime are the same for every series of a tick.
newTimeSeries(name, valueType, v) ==
    [Type |-> customMetric(name), ValueType |-> valueType, Value |-> v]

\* A slip: zero values are reported too.
scalarPointsNoSuppress(name, valueType, v) == <<newTimeSeries(name, valueType, v)>>

\* Counter, Gauge, GaugeFloat64: `if v == 0 { return }`, else one series.
scalarPoints(name, valueType, v) ==
    IF v = 0 THEN <<>> ELSE <<newTimeSeries(name, valueType, v)>>

\* Meter: `if v := m.RateX(); v != 0 { ... }`
ratePoint(name, v) ==
    IF v # 0 THEN <<newTimeSeries(name, "DoubleValue", v)>> ELSE <<>>

\* A variant that also reports the snapshot's count, as ".count".
meterPointsWithCount(name, m) ==
    (IF m.count # 0 THEN <<newTimeSeries(name \o SfxCount, "Int64Value", m.count)>> ELSE <<>>)
    \o ratePoint(name \o SfxMean, m.rateMean)
    \o ratePoint(name \o Sfx1min, m.rate1)
    \o ratePoint(name \o Sfx5min, m.rate5)
    \o ratePoint(name \o Sfx15min, m.rate15)

meterPoints(name, m) ==
    ratePoint(name \o SfxMean, m.rateMean)
    \o ratePoint(name \o Sfx1min, m.rate1)
    \o ratePoint(name \o Sfx5min, m.rate5)
    \o ratePoint(name \o Sfx15min, m.rate15)

\* The series the callback of r.Each appends for one (name, metric).
metricPoints(name, m) ==
    CASE m.kind = "Counter"      -> scalarPoints(name, "Int64Value", m.count)
      [] m.kind = "Gauge"        -> scalarPoints(name, "Int64Value", m.value)
      [] m.kind = "GaugeFloat64" -> scalarPoints(name, "DoubleValue", m.value)
      [] m.kind = "Meter"        -> meterPoints(name, m)
      [] OTHER                   -> <<>>      \* Histogram, Timer, default

\* The orders in which r.Each may visit the registry (map iteration order).
Orders(reg) ==
    {o \in [1..Cardinality(DOMAIN reg) -> DOMAIN reg] :
        \A i, j \in DOMAIN o : i # j => o[i] # o[j]}

RECURSIVE eachPoints(_, _)
eachPoints(order, reg) ==
    IF order = <<>> THEN <<>>
    ELSE metricPoints(Head(order), reg[Head(order)]) \o eachPoints(Tail(order), reg)

\* buildTimeSeries: the batch; err is never assigned and stays nil.
buildTimeSeries(order, reg) == [pts |-> eachPoints(order, reg), err |-> "nil"]

\* `if m.Count() > 0 { once.Do(...) }` over the whole registry
wantsWarning(reg, kind) == \E n \in DOMAIN reg : reg[n].kind = kind /\ reg[n].count > 0

\* sync.Once
\* done, and the set of goroutines holding the mutex m
NewOnce == [done |-> FALSE, m |-> {}]

\* once.Do(f) run without interleaving: f runs iff done is still unset.
onceAfter(o, wanted) == IF wanted THEN [o EXCEPT !.done = TRUE] ELSE o
logAfter(o, wanted, n) == IF wanted /\ ~o.done THEN n + 1 ELSE n

\* The one-time warnings of one whole buildTimeSeries call.
BuildWarnings(reg) ==
    /\ histogramsNotImplemented' =
           onceAfter(histogramsNotImplemented, wantsWarning(reg, "Histogram"))
    /\ timersNotImplemented' =
           onceAfter(timersNotImplemented, wantsWarning(reg, "Timer"))
    /\ logged' =
           [hist  |-> logAfter(histogramsNotImplemented,
                               wantsWarning(reg, "Histogram"), logged.hist),
            timer |-> logAfter(timersNotImplemented,
                               wantsWarning(reg, "Timer"), logged.timer)]

(***************************************************************************)
(* Initial values of the parts a specification does not use                *)
(***************************************************************************)
MonitorIdle ==
    /\ maxErrors = 1 /\ asyncTimerChan = TRUE /\ pc = "recv" /\ errors = 0
    /\ err = "nil" /\ tickerC = 0 /\ tickerStopped = FALSE /\ fired = 0
    /\ reports = 0 /\ outcomes = <<>> /\ writes = 0 /\ wr = <<>>
OnceInit ==
    /\ histogramsNotImplemented = NewOnce /\ timersNotImplemented = NewOnce
    /\ logged = [hist |-> 0, timer |-> 0]
ReportersIdle ==
    /\ rpc = <<>> /\ todo = <<>> /\ cur = <<>> /\ rpts = <<>>
NamesIdle ==
    /\ nm = <<>> /\ ident = None /\ slashed = <<>> /\ applied = 0

(***************************************************************************)
(* SpecNames: the naming functions applied to bounded names                *)
(***************************************************************************)
Alphabet == {"a", "b", ".", "/"}
NamesUpTo(n) == UNION {[1..k -> Alphabet] : k \in 0..n}

InitNames ==
    /\ nm \in NamesUpTo(MaxLen)
    /\ ident = None /\ slashed = nm /\ applied = 0
    /\ MonitorIdle /\ OnceInit /\ ReportersIdle
    /\ registry = <<>> /\ seen = <<>> /\ pts = <<>>

\* id := customMetric(nm)
CallCustomMetric ==
    /\ ident' = customMetric(nm)
    /\ UNCHANGED <<nm, slashed, applied, monitorVars, onceVars, reporterVars,
                   registry, seen, pts>>

\* s = DotSlashes(s), up to twice
CallDotSlashes ==
    /\ applied < 2
    /\ slashed' = DotSlashes(slashed)
    /\ applied' = applied + 1
    /\ UNCHANGED <<nm, ident, monitorVars, onceVars, reporterVars, registry, seen, pts>>

NextNames == CallCustomMetric \/ CallDotSlashes
SpecNames == InitNames /\ [][NextNames]_vars

\* The name with every "." replaced by "/", position by position.
Slashed(name) == [i \in 1..Len(name) |-> IF name[i] = "." THEN "/" ELSE name[i]]
HasDot(name) == \E i \in 1..Len(name) : name[i] = "."

\* C7: customMetric(name) is the fixed prefix followed by the name with every
\* "." replaced by "/", on every call; DotSlashes applied to an already
\* converted name changes nothing; a name without dots follows the prefix
\* unchanged.
C7_Identity ==
    /\ ident # None =>
          /\ Len(ident) = Len(Prefix) + Len(nm)
          /\ SubSeq(ident, 1, Len(Prefix)) = Prefix
          /\ SubSeq(ident, Len(Prefix) + 1, Len(ident)) = Slashed(nm)
          /\ (~HasDot(nm) => ident = Prefix \o nm)
    /\ applied >= 1 => slashed = Slashed(nm) /\ ~HasDot(slashed)

C7_Witness ==
    /\ ident # None /\ applied = 2
    /\ Len(nm) = 3 /\ nm[1] = "." /\ nm[3] = "."

(***************************************************************************)
(* SpecBuild: buildTimeSeries over registries of every instrument kind     *)
(***************************************************************************)
InitBuild ==
    /\ registry \in [RegNames -> Instruments]
    /\ seen = <<>> /\ pts = <<>>
    /\ MonitorIdle /\ OnceInit /\ ReportersIdle /\ NamesIdle

\* reqs, err := config.buildTimeSeries(now, registry)
BuildTick ==
    /\ \E order \in Orders(registry) : pts' = buildTimeSeries(order, registry).pts
    /\ seen' = registry
    /\ BuildWarnings(registry)
    /\ UNCHANGED <<registry, monitorVars, reporterVars, nameVars>>

NextBuild == BuildTick
SpecBuild == InitBuild /\ [][NextBuild]_vars

\* The backend identity of a name, position by position.
Identity(name) == Prefix \o Slashed(name)
\* The positions of the batch addressed to a name.
PointsAt(batch, name) == {i \in 1..Len(batch) : batch[i].Type = Identity(name)}
Built == seen # <<>>

IsScalar(m) == m.kind \in {"Counter", "Gauge", "GaugeFloat64"}
ScalarValue(m) == IF m.kind = "Counter" THEN m.count ELSE m.value
ScalarType(m) == IF m.kind = "GaugeFloat64" THEN "DoubleValue" ELSE "Int64Value"

\* C4: a Counter, integer Gauge or floating Gauge puts no point into the
\* tick's batch when its value is zero and exactly one when it is not; that
\* point is addressed to the identity of the unsuffixed name and carries the
\* value read, typed as the instrument is.
C4_ScalarPoints ==
    Built =>
      \A n \in DOMAIN seen :
        IsScalar(seen[n]) =>
          /\ ScalarValue(seen[n]) = 0 => PointsAt(pts, n) = {}
          /\ ScalarValue(seen[n]) # 0 =>
                /\ Cardinality(PointsAt(pts, n)) = 1
                /\ \A i \in PointsAt(pts, n) :
                      /\ pts[i].Value = ScalarValue(seen[n])
                      /\ pts[i].ValueType = ScalarType(seen[n])

\* jobs.done = Counter(10) next to an idle Gauge: one series, value 10.
C4_Witness ==
    /\ Built
    /\ seen[JobsDone] = Counter(10) /\ seen[QueueSize] = Gauge(0)
    /\ Len(pts) = 1 /\ pts[1].Value = 10 /\ pts[1].Type = Identity(JobsDone)

RateSuffixes == {SfxMean, Sfx1min, Sfx5min, Sfx15min}
RateOf(m, sfx) ==
    CASE sfx = SfxMean  -> m.rateMean
      [] sfx = Sfx1min  -> m.rate1
      [] sfx = Sfx5min  -> m.rate5
      [] sfx = Sfx15min -> m.rate15
ExampleMeter == Meter(5, 12, 0, 34, 0)

\* The series of one meter, rate by rate.
RatesReported(n) ==
    \A sfx \in RateSuffixes :
      /\ RateOf(seen[n], sfx) = 0 => PointsAt(pts, n \o sfx) = {}
      /\ RateOf(seen[n], sfx) # 0 =>
            /\ Cardinality(PointsAt(pts, n \o sfx)) = 1
            /\ \A i \in PointsAt(pts, n \o sfx) :
                  /\ pts[i].Value = RateOf(seen[n], sfx)
                  /\ pts[i].ValueType = "DoubleValue"

\* C5 as stated: a Meter reports count and four rates, each unless zero.
C5_MeterFivePoints ==
    Built =>
      \A n \in DOMAIN seen :
        seen[n].kind = "Meter" =>
          /\ RatesReported(n)
          /\ seen[n].count # 0 =>
                /\ Cardinality(PointsAt(pts, n \o SfxCount)) = 1
                /\ \A i \in PointsAt(pts, n \o SfxCount) : pts[i].Value = seen[n].count

\* C5 amended: a Meter reports up to four points, ".mean", ".1min", ".5min"
\* and ".15min", each suppressed independently when its rate is zero; the
\* snapshot's count is never reported, so the snapshot count=5, mean=1.2,
\* rate1=0, rate5=3.4, rate15=0 yields exactly ".mean"(1.2) and ".5min"(3.4).
C5_MeterFourRates ==
    Built =>
      \A n \in DOMAIN seen :
        seen[n].kind = "Meter" =>
          /\ RatesReported(n)
          /\ PointsAt(pts, n \o SfxCount) = {}
          /\ PointsAt(pts, n) = {}
          /\ (seen[n] = ExampleMeter /\ \A k \in DOMAIN seen : k # n => seen[k] = Gauge(0))
                => Len(pts) = 2

C5_Witness ==
    /\ Built
    /\ seen[JobsDone] = ExampleMeter /\ seen[QueueSize] = Gauge(0)
    /\ Len(pts) = 2
    /\ pts[1].Type = Identity(JobsDone \o SfxMean) /\ pts[1].Value = 12
    /\ pts[2].Type = Identity(JobsDone \o Sfx5min) /\ pts[2].Value = 34

(***************************************************************************)
(* Spec: Monitor (gcm.go:81-108) and Report (gcm.go:111-128)               *)
(***************************************************************************)
Reg(a, b) == [n \in RegNames |-> IF n = JobsDone THEN a ELSE b]
LoopRegistries ==
    {Reg(Counter(10), Gauge(0)), Reg(Counter(0), Gauge(0)), Reg(Counter(10), Histogram(2))}

\* The runtime's send on ticker.C: the channel holds one tick, and a tick
\* that finds it full is dropped.
TickerCap == 1
\* A slip: every tick is queued.
sendTimeQueued(c) == c + 1
sendTime(c) == IF c < TickerCap THEN c + 1 ELSE c

\* ticker.Stop(): the channel is not closed.  A tick already buffered stays
\* receivable when the program is built with the asynchronous timer channels
\* (before Go 1.23), and is discarded otherwise.
stopTicker(c) == IF asyncTimerChan THEN c ELSE 0

\* A slip: the counter is not reset by a success.
nextErrorsCumulative(n, e) == IF e # "nil" THEN n + 1 ELSE n
\* if err != nil { errors++ } else { errors = 0 }
nextErrors(n, e) == IF e # "nil" THEN n + 1 ELSE 0

\* A slip: nothing is sent when the batch is empty.
reportRequestsSkipEmpty(reqs) == IF reqs = <<>> THEN <<>> ELSE <<[TimeSeries |-> reqs]>>
\* The CreateTimeSeries requests one Report issues: one, carrying the batch.
reportRequests(reqs) == <<[TimeSeries |-> reqs]>>

Init ==
    /\ maxErrors \in 0..MaxErrorsBound
    /\ asyncTimerChan \in BOOLEAN
    /\ registry \in LoopRegistries
    /\ pc = "recv" /\ errors = 0 /\ err = "nil"
    /\ tickerC = 0 /\ tickerStopped = FALSE /\ fired = 0
    /\ reports = 0 /\ outcomes = <<>> /\ writes = 0 /\ wr = <<>>
    /\ seen = <<>> /\ pts = <<>>
    /\ OnceInit /\ ReportersIdle /\ NamesIdle

\* The ticker's period elapses.
TickerFire ==
    /\ ~tickerStopped
    /\ fired < MaxTicks
    /\ fired' = fired + 1
    /\ tickerC' = sendTime(tickerC)
    /\ UNCHANGED <<maxErrors, asyncTimerChan, pc, errors, err, tickerStopped, reports,
                   outcomes, writes, wr, registry, seen, pts, onceVars, reporterVars,
                   nameVars>>

\* `for range ticker.C` receives a tick and calls Report, which builds the
\* batch and, err being nil, issues Create(config.Project, wr).Do().
ReportStart ==
    /\ pc = "recv"
    /\ tickerC > 0
    /\ tickerC' = tickerC - 1
    /\ reports' = reports + 1
    /\ \E order \in Orders(registry) :
          LET built == buildTimeSeries(order, registry) IN
          /\ built.err = "nil"
          /\ pts' = built.pts
          /\ wr' = reportRequests(built.pts)
          /\ writes' = writes + Len(reportRequests(built.pts))
    /\ seen' = registry
    /\ BuildWarnings(registry)
    /\ pc' = "inflight"
    /\ UNCHANGED <<maxErrors, asyncTimerChan, errors, err, tickerStopped, fired,
                   outcomes, registry, reporterVars, nameVars>>

\* Do() returns; Report returns its error; Monitor counts it and stops the
\* ticker at the threshold.  The loop then goes back to the receive.
ReportDone ==
    /\ pc = "inflight"
    /\ \E e \in {"nil", "error"} :
          /\ err' = e
          /\ errors' = nextErrors(errors, e)
          /\ outcomes' = Append(outcomes, e)
    /\ IF errors' >= maxErrors
       THEN /\ tickerStopped' = TRUE
            /\ tickerC' = stopTicker(tickerC)
       ELSE UNCHANGED <<tickerStopped, tickerC>>
    /\ pc' = "recv"
    /\ UNCHANGED <<maxErrors, asyncTimerChan, fired, reports, writes, wr, registry,
                   seen, pts, onceVars, reporterVars, nameVars>>

\* The application updates its instruments at any time.
AppUpdate ==
    /\ registry' \in LoopRegistries \ {registry}
    /\ UNCHANGED <<monitorVars, seen, pts, onceVars, reporterVars, nameVars>>

Next == TickerFire \/ ReportStart \/ ReportDone \/ AppUpdate
Spec == Init /\ [][Next]_vars

\* The goroutine running Monitor is scheduled, the backend call returns and
\* the running ticker keeps firing.
FairSpec ==
    Spec /\ WF_vars(ReportStart) /\ WF_vars(ReportDone) /\ WF_vars(TickerFire)

\* Number of failures at the end of a history.
RECURSIVE TrailingFailures(_)
TrailingFailures(h) ==
    IF h = <<>> \/ h[Len(h)] = "nil" THEN 0
    ELSE 1 + TrailingFailures(SubSeq(h, 1, Len(h) - 1))
\* The history holds k failures in a row.
HasRun(h, k) ==
    \E i \in k..Len(h) : \A j \in (i - k + 1)..i : h[j] = "error"

\* C1: for maxErrors >= 1 the counter equals the number of failed Report
\* calls since the last successful one, and errors >= maxErrors holds exactly
\* when the last maxErrors Report calls all failed; the ticker is stopped
\* only by maxErrors failures in a row.
C1_ConsecutiveErrors ==
    maxErrors >= 1 =>
      /\ errors = TrailingFailures(outcomes)
      /\ (errors >= maxErrors) =
            (/\ Len(outcomes) >= maxErrors
             /\ \A j \in (Len(outcomes) - maxErrors + 1)..Len(outcomes) :
                   outcomes[j] = "error")
      /\ tickerStopped = HasRun(outcomes, maxErrors)

\* Three failures in all, separated by a success: the loop goes on.
C1_Witness ==
    /\ maxErrors = 3 /\ outcomes = <<"error", "nil", "error", "error">>
    /\ errors = 2 /\ ~tickerStopped /\ pc = "recv"

\* C2 as stated: once the threshold was reached no further tick is consumed
\* and Report is not called again.
C2_NoReportAfterStop ==
    [][(maxErrors >= 1 /\ tickerStopped) => (reports' = reports /\ tickerC' = tickerC)]_vars

\* C8: at most one tick is pending, a Report starts only when every earlier
\* one has finished, and Report is called at most once per timer firing.
C8_NoOverlap ==
    /\ tickerC <= 1
    /\ reports <= fired
    /\ reports + tickerC <= fired
    /\ reports - Len(outcomes) = (IF pc = "inflight" THEN 1 ELSE 0)

\* Two firings while a submission is in flight: one is pending, one is lost.
C8_Witness ==
    /\ pc = "inflight" /\ tickerC = 1 /\ fired = reports + 2

RECURSIVE ExpectedLen(_, _)
ExpectedLen(reg, names) ==
    IF names = {} THEN 0
    ELSE LET n == CHOOSE x \in names : TRUE
             m == reg[n]
         IN  (CASE IsScalar(m) -> IF ScalarValue(m) # 0 THEN 1 ELSE 0
                [] m.kind = "Meter" ->
                     Cardinality({sfx \in RateSuffixes : RateOf(m, sfx) # 0})
                [] OTHER -> 0)
             + ExpectedLen(reg, names \ {n})

\* C9: every Report issues exactly one write request, which carries all the
\* points of the tick, also when there are none; the result of that request
\* decides whether the tick resets or increments the error counter.
C9_OneWritePerReport ==
    /\ writes = reports
    /\ reports > 0 =>
          /\ Len(wr) = 1
          /\ wr[1].TimeSeries = pts
          /\ Len(wr[1].TimeSeries) = ExpectedLen(seen, DOMAIN seen)
    /\ (pc = "recv" /\ outcomes # <<>>) =>
          /\ outcomes[Len(outcomes)] = err
          /\ (err = "nil") = (errors = 0)

\* An empty batch was sent, and its rejection counted as a failure.
C9_Witness ==
    /\ pc = "recv" /\ reports = 2 /\ writes = 2
    /\ wr = <<[TimeSeries |-> <<>>]>>
    /\ err = "error" /\ errors = 2

\* C10 as stated: after the threshold is reached Monitor leaves its loop and
\* returns.  (No action sets pc to "returned": ticker.C is never closed, so
\* the statement after the range loop, gcm.go:107, has no way to be reached.)
C10_MonitorReturns == (maxErrors >= 1 /\ tickerStopped) ~> (pc = "returned")

(***************************************************************************)
(* SpecOnce: several reporters of one process inside Report at once.       *)
(* r.Each visits the registry one instrument at a time; the one-time       *)
(* warnings go through sync.Once, modelled step by step: the load of done, *)
(* the lock, the second test with f(), the deferred store and unlock.      *)
(***************************************************************************)
Reporters == 1..MaxReporters

HistA  == <<"h",".","a">>
HistB  == <<"h",".","b">>
TimerA == <<"t",".","a">>
OnceRegistries ==
    {[n \in {HistA, HistB, TimerA} |->
         IF n = HistA THEN Histogram(2) ELSE IF n = HistB THEN hb ELSE ta] :
       hb \in {Histogram(2), Histogram(0)}, ta \in {Timer(3), Counter(10)}}

InitOnce ==
    /\ registry \in OnceRegistries
    /\ rpc = [r \in Reporters |-> "idle"]
    /\ todo = [r \in Reporters |-> {}]
    /\ cur = [r \in Reporters |-> None]
    /\ rpts = [r \in Reporters |-> <<>>]
    /\ seen = <<>> /\ pts = <<>>
    /\ MonitorIdle /\ OnceInit /\ NamesIdle

\* The sync.Once the instrument under visit goes through.
OnceOf(r) ==
    IF registry[cur[r]].kind = "Histogram"
    THEN histogramsNotImplemented ELSE timersNotImplemented
SetOnce(r, o) ==
    IF registry[cur[r]].kind = "Histogram"
    THEN histogramsNotImplemented' = o /\ UNCHANGED timersNotImplemented
    ELSE timersNotImplemented' = o /\ UNCHANGED histogramsNotImplemented
LogWarning(r) ==
    IF registry[cur[r]].kind = "Histogram"
    THEN logged' = [logged EXCEPT !.hist = @ + 1]
    ELSE logged' = [logged EXCEPT !.timer = @ + 1]

\* A slip: a plain flag instead of sync.Once, nothing excludes a second caller.
mutexFreeAlways(o) == TRUE
\* o.m.Lock() goes through when nobody holds the mutex.
mutexFree(o) == o.m = {}

\* Report is called: buildTimeSeries starts r.Each.
ReportBegin(r) ==
    /\ rpc[r] = "idle"
    /\ rpc' = [rpc EXCEPT ![r] = "each"]
    /\ todo' = [todo EXCEPT ![r] = DOMAIN registry]
    /\ rpts' = [rpts EXCEPT ![r] = <<>>]
    /\ UNCHANGED <<cur, registry, seen, pts, monitorVars, onceVars, nameVars>>

\* The callback of r.Each on the next instrument, in map order.
EachVisit(r) ==
    /\ rpc[r] = "each"
    /\ \E n \in todo[r] :
          /\ todo' = [todo EXCEPT ![r] = @ \ {n}]
          /\ IF registry[n].kind \in {"Histogram", "Timer"} /\ registry[n].count > 0
             THEN /\ cur' = [cur EXCEPT ![r] = n]
                  /\ rpc' = [rpc EXCEPT ![r] = "onceLoad"]
                  /\ UNCHANGED rpts
             ELSE /\ rpts' = [rpts EXCEPT ![r] = @ \o metricPoints(n, registry[n])]
                  /\ UNCHANGED <<cur, rpc>>
    /\ UNCHANGED <<registry, seen, pts, monitorVars, onceVars, nameVars>>

\* Once.Do: `if o.done.Load() == 0 { o.doSlow(f) }`
OnceLoad(r) ==
    /\ rpc[r] = "onceLoad"
    /\ rpc' = [rpc EXCEPT ![r] = IF OnceOf(r).done THEN "each" ELSE "onceLock"]
    /\ UNCHANGED <<todo, cur, rpts, registry, seen, pts, monitorVars, onceVars, nameVars>>

\* doSlow: o.m.Lock()
OnceLock(r) ==
    /\ rpc[r] = "onceLock"
    /\ mutexFree(OnceOf(r))
    /\ SetOnce(r, [OnceOf(r) EXCEPT !.m = {r}])
    /\ rpc' = [rpc EXCEPT ![r] = "onceSlow"]
    /\ UNCHANGED <<todo, cur, rpts, registry, seen, pts, monitorVars, logged, nameVars>>

\* doSlow: `if o.done == 0 { defer o.done.Store(1); f() }`, f being log.Printf
OnceSlow(r) ==
    /\ rpc[r] = "onceSlow"
    /\ IF ~OnceOf(r).done
       THEN /\ LogWarning(r)
            /\ rpc' = [rpc EXCEPT ![r] = "onceStore"]
            /\ UNCHANGED <<histogramsNotImplemented, timersNotImplemented>>
       ELSE /\ SetOnce(r, [OnceOf(r) EXCEPT !.m = {}])
            /\ rpc' = [rpc EXCEPT ![r] = "each"]
            /\ UNCHANGED logged
    /\ UNCHANGED <<todo, cur, rpts, registry, seen, pts, monitorVars, nameVars>>

\* doSlow returns: the deferred o.done.Store(1) and o.m.Unlock()
OnceStore(r) ==
    /\ rpc[r] = "onceStore"
    /\ SetOnce(r, [done |-> TRUE, m |-> {}])
    /\ rpc' = [rpc EXCEPT ![r] = "each"]
    /\ UNCHANGED <<todo, cur, rpts, registry, seen, pts, monitorVars, logged, nameVars>>

\* r.Each is through: buildTimeSeries returns and Report submits the batch.
\* (The counters reports and writes are the history of one Monitor call and
\* are not kept for these free-running callers.)
ReportEnd(r) ==
    /\ rpc[r] = "each"
    /\ todo[r] = {}
    /\ rpc' = [rpc EXCEPT ![r] = "idle"]
    /\ pts' = rpts[r]
    /\ wr' = reportRequests(rpts[r])
    /\ seen' = registry
    /\ UNCHANGED <<maxErrors, asyncTimerChan, pc, errors, err, tickerC, tickerStopped,
                   fired, reports, outcomes, writes, todo, cur, rpts, registry,
                   onceVars, nameVars>>

NextOnce ==
    \E r \in Reporters :
        \/ ReportBegin(r) \/ EachVisit(r) \/ OnceLoad(r) \/ OnceLock(r)
        \/ OnceSlow(r) \/ OnceStore(r) \/ ReportEnd(r)
SpecOnce == InitOnce /\ [][NextOnce]_vars

\* C6: each of the two warnings is printed at most once, however many ticks,
\* instruments and concurrent reporters there are; each latch is set only by
\* its own warning; Histogram and Timer instruments add no point to a batch.
C6_WarnOnce ==
    /\ logged.hist <= 1 /\ logged.timer <= 1
    /\ histogramsNotImplemented.done => logged.hist = 1
    /\ timersNotImplemented.done => logged.timer = 1
    /\ \A r \in DOMAIN rpts : \A n \in DOMAIN registry :
          registry[n].kind \in {"Histogram", "Timer"} =>
             \A i \in 1..Len(rpts[r]) :
                 SubSeq(rpts[r][i].Type, 1, Len(Identity(n))) # Identity(n)

\* Two reporters raced for the histogram warning: one printed it, the other
\* had read done = 0 and now holds the lock with the latch set; the timer
\* warning was printed as well.
C6_Witness ==
    /\ logged = [hist |-> 1, timer |-> 1]
    /\ registry[HistB] = Histogram(2)
    /\ \E r \in Reporters :
          /\ rpc[r] = "onceSlow"
          /\ registry[cur[r]].kind = "Histogram"
          /\ histogramsNotImplemented.done

====
